---- MODULE Spec2Model ----
(***************************************************************************)
(* A model of brightsparc/segment: the HTTP dispatcher (handleEvent,       *)
(* handleBatch, send), the firehose Delivery destination (batching sink),  *)
(* the Forwarder destination (drop sink) and Segment.Run (supervisor, in   *)
(* its backoff and its error-channel variant).                             *)
(***************************************************************************)
EXTENDS Integers, Sequences, FiniteSets, TLC

\* ------------------------------------------------------------------ bounds
\* Requests, and messages in them, that arrive in one behaviour of the system
\* with both destinations.
MaxMsgs == 2
\* Single events submitted to one destination alone.
MaxEvents == 5

\* ------------------------------------------------------- program constants
\* NewDelivery: the largest batch size, and the default.
MaxBatchSize == 500
\* NewDelivery: the default flush interval, in seconds.
DefaultFlushInterval == 30
\* NewSegment: backoRetry.
BackoRetry == 10
\* backo.DefaultBacko(): base delay and cap, in milliseconds, and the factor.
BackoBase == 100
BackoCap == 10000
BackoFactor == 2

Handlers == {"h1", "h2"}
Sinks == {"fwd", "dlv"}

VARIABLES
  destinations,  \* Segment.destinations, in registration order
  variant,       \* which Segment.Run is built: "backoff" or "errchan"
  config,        \* the DeliveryConfig given to NewDelivery
  size,          \* Delivery.size
  flushInterval, \* Delivery.flushInterval
  cancelled,     \* the context given to Run is done
  exited,        \* Logger.Fatal has ended the process
  started,       \* Run has been called
  sentAtCancel,  \* history: Delivery.Send calls that had returned nil at Cancel
  hs,            \* one record per HTTP handler goroutine
  nReq,          \* requests received so far
  nMsgs,         \* messages received so far, in requests that decoded
  nUuid,         \* uuids generated so far
  acceptLog,     \* every call of a destination's Send, in call order
  resp,          \* the responses written, in order
  dpc,           \* Delivery.Process: where it is
  dQueues,       \* every channel Process has made; d.messages is the last
  dAdmit,        \* per channel, every message sent on it, in the order sent
  records,       \* Process's records[:i]
  dWait,         \* time the current select has waited with nothing ready
  dAge,          \* history: time since records[0] was written
  putLog,        \* every PutRecordBatch call, in order
  dConn,         \* the last Connect: what it saw and did
  dRet,          \* what the last Process invocation returned
  fpc,           \* Forwarder.Process: where it is
  fCur,          \* the message Forwarder.Process is sending
  fSkipped,      \* forwarderSkipCounter
  fSuccess,      \* forwarderSuccessCounter
  fFailure,      \* forwarderFailureCounter
  fErr,          \* what f.send last returned to Process
  fSent,         \* the messages handed to f.send, in order
  fRecent,       \* history: what the last Forwarder.Send calls (two at most)
                 \* did since Process last took a step
  sup,           \* one record per destination goroutine of Run
  done,          \* the values sent on Run's done channel
  doneClosed     \* close(done) has happened

cfgVars == <<destinations, variant, config, size, flushInterval>>
procVars == <<cancelled, exited, started, sentAtCancel>>
dispVars == <<hs, nReq, nMsgs, nUuid, acceptLog, resp>>
dlvVars == <<dpc, dQueues, dAdmit, records, dWait, dAge, putLog, dConn, dRet>>
fwdVars == <<fpc, fCur, fSkipped, fSuccess, fFailure, fErr, fSent, fRecent>>
supVars == <<sup, done, doneClosed>>
vars == <<cfgVars, procVars, dispVars, dlvVars, fwdVars, supVars>>

\* ----------------------------------------------------------------- helpers
Min(a, b) == IF a < b THEN a ELSE b

RECURSIVE Pow(_, _)
Pow(b, e) == IF e = 0 THEN 1 ELSE b * Pow(b, e - 1)

SeqsUpTo(S, n) == UNION {[1..m -> S] : m \in 0..n}

Alive == ~exited

\* The ProjectId function the caller supplies: "" for an unknown write key.
ProjectIdOf(writeKey) == IF writeKey = "k1" THEN "p1" ELSE ""

\* A clamp that lets a batch size of zero through.
ClampBatchSizeLoose(b) == IF b < 0 \/ b > MaxBatchSize THEN MaxBatchSize ELSE b

\* NewDelivery's clamp of config.BatchSize.
ClampBatchSize(b) == IF b <= 0 \/ b > MaxBatchSize THEN MaxBatchSize ELSE b

\* NewDelivery's default of config.FlushInterval.
DefaultInterval(f) == IF f = 0 THEN DefaultFlushInterval ELSE f

\* backo.Duration(attempt) of DefaultBacko (no jitter), in milliseconds.
BackoDuration(attempt) == Min(BackoBase * Pow(BackoFactor, attempt), BackoCap)

\* A generator that repeats itself.
NewUuidFixed(n) == "uuid-0"

\* uuid.NewRandom().String(): the n-th one generated.
NewUuid(n) == "uuid-" \o ToString(n)

NoEv == [rid |-> 0, idx |-> 0, writeKey |-> "", projectId |-> "",
         context |-> "", messageId |-> ""]

IdleH == [pc |-> "idle", rid |-> 0, kind |-> "none", msgs |-> <<>>, key |-> "",
          proj |-> "", bctx |-> "", j |-> 0, k |-> 0, ev |-> NoEv,
          timeout |-> FALSE, ctxDone |-> FALSE, cref |-> 0, ai |-> 0]

\* d.messages: 0 is nil, g > 0 the g-th channel made.
DMessages == Len(dQueues)
\* A channel made with room for three batches.
QueueCapThree == size * 3

\* cap(d.messages)
QueueCap == size * 2


\* ------------------------------------------------------- Segment.Run (part)
\* A goroutine whose loop has no break: it sleeps and calls Process again
\* whatever Process returned.
SupAfterProcessNoBreak(dest, err) ==
  /\ sup' = [sup EXCEPT ![dest] =
               [@ EXCEPT !.rets = Append(@, err), !.pc = "sleeping",
                         !.sleeps = Append(@, BackoDuration(sup[dest].i))]]
  /\ UNCHANGED <<done, doneClosed>>

\* What the goroutine of Run does when dest.Process(ctx) has returned err.
\* backoff variant: nil breaks out of the loop and the goroutine ends; an error
\* is logged and followed by backo.Sleep(i).  errchan variant: the value is sent
\* on done, then wg.Done().
SupAfterProcess(dest, err) ==
  IF variant = "backoff"
  THEN /\ sup' = [sup EXCEPT ![dest] =
                    [@ EXCEPT !.rets = Append(@, err),
                              !.pc = IF err = "nil" THEN "ended" ELSE "sleeping",
                              !.slept = 0,
                              !.sleeps = IF err = "nil" THEN @
                                         ELSE Append(@, BackoDuration(sup[dest].i))]]
       /\ UNCHANGED <<done, doneClosed>>
  ELSE /\ sup' = [sup EXCEPT ![dest] =
                    [@ EXCEPT !.rets = Append(@, err), !.pc = "ended"]]
       /\ done' = Append(done, [dest |-> dest, err |-> err])
       /\ UNCHANGED doneClosed

\* ------------------------------------------------------------- Delivery
\* A Connect that attempts the creation after any error of the existence check.
ConnectResultCreateAlways(describe, create) ==
  IF describe = "found" THEN "nil"
  ELSE IF create = "ok" THEN "nil"
  ELSE "connecterr"

\* Delivery.Connect: nil when the stream is found, or is absent and created.
ConnectResult(describe, create) ==
  IF describe = "found" THEN "nil"
  ELSE IF describe = "notfound" /\ create = "ok" THEN "nil"
  ELSE "connecterr"

\* What an outbound call (PutRecordBatch, the Forwarder's POST) may answer; a
\* healthy destination answers "ok" alone.
Outcomes == {"ok", "err"}
Healthy == {"ok"}

\* The send closure of Process, called with i > 0: one PutRecordBatch call.
PutEntry(recs, trigger, out) ==
  [recs |-> recs, trigger |-> trigger, gen |-> DMessages, err |-> (out = "err")]

\* A send closure without its test of i = 0.
PutBatchAlways(recs, trigger, out) == Append(putLog, PutEntry(recs, trigger, out))

\* A send closure that slices the records one short.
PutBatchShort(recs, trigger, out) ==
  IF recs = <<>> THEN putLog
  ELSE Append(putLog, PutEntry(SubSeq(recs, 1, Len(recs) - 1), trigger, out))

\* The send closure of Process called with records[:i]: nothing to send when
\* i = 0, else one PutRecordBatch call; the log of calls after it.
PutBatch(recs, trigger, out) ==
  IF recs = <<>> THEN putLog ELSE Append(putLog, PutEntry(recs, trigger, out))

\* The send closure's return value.
SendResult(n, out) == IF n = 0 THEN "nil" ELSE IF out = "err" THEN "senderr" ELSE "nil"

\* Process, from its entry to the loop: Connect, then the channel and the
\* records array are made; a Connect error is returned to Run's goroutine.
DlvConnect ==
  /\ Alive /\ dpc = "entry"
  /\ \E describe \in {"found", "notfound", "error"}, create \in {"ok", "error"} :
       LET err == ConnectResult(describe, create) IN
       /\ dConn' = [describe |-> describe,
                    creates |-> IF describe = "notfound" THEN 1 ELSE 0,
                    create |-> IF describe = "notfound" THEN create ELSE "none",
                    err |-> err]
       /\ IF err = "nil"
          THEN /\ dQueues' = Append(dQueues, <<>>)
               /\ dAdmit' = Append(dAdmit, <<>>)
               /\ records' = <<>>
               /\ dWait' = 0
               /\ dAge' = 0
               /\ dpc' = "select"
               /\ UNCHANGED <<dRet, supVars>>
          ELSE /\ dpc' = "returned"
               /\ dRet' = err
               /\ SupAfterProcess("dlv", err)
               /\ UNCHANGED <<dQueues, dAdmit, records, dWait, dAge>>
  /\ UNCHANGED <<putLog, cfgVars, procVars, dispVars, fwdVars>>

\* case message := <-d.messages, then the size check that ends the iteration.
DlvRecv(outs) ==
  /\ Alive /\ dpc = "select"
  /\ dQueues[DMessages] # <<>>
  /\ LET recs == Append(records, Head(dQueues[DMessages])) IN
       /\ dQueues' = [dQueues EXCEPT ![DMessages] = Tail(@)]
       /\ IF Len(recs) = size
          THEN /\ \E out \in outs :
                    putLog' = PutBatch(recs, "size", out)
               /\ records' = <<>>
          ELSE /\ records' = recs
               /\ UNCHANGED putLog
  /\ dWait' = 0
  /\ dAge' = IF records = <<>> \/ records' = <<>> THEN 0 ELSE dAge
  /\ UNCHANGED <<dpc, dAdmit, dConn, dRet, cfgVars, procVars, dispVars, fwdVars, supVars>>

\* A loop of Process without the ctx.Done() case.
DlvCtxDoneAbsent(outs) ==
  /\ FALSE
  /\ UNCHANGED vars

\* case <-ctx.Done(): return send(i).
DlvCtxDone(outs) ==
  /\ Alive /\ dpc = "select"
  /\ cancelled
  /\ \E out \in outs :
       /\ putLog' = PutBatch(records, "final", out)
       /\ dRet' = SendResult(Len(records), out)
       /\ SupAfterProcess("dlv", SendResult(Len(records), out))
  /\ dpc' = "returned"
  /\ records' = <<>>
  /\ dWait' = 0
  /\ dAge' = 0
  /\ UNCHANGED <<dQueues, dAdmit, dConn, cfgVars, procVars, dispVars, fwdVars>>

\* A timer flush that keeps the records of a failed batch for the next one.
DlvTimerKeepFailed(outs) ==
  /\ Alive /\ dpc = "select"
  /\ dWait = flushInterval
  /\ IF records # <<>>
     THEN \E out \in outs :
            /\ putLog' = PutBatch(records, "timer", out)
            /\ records' = IF out = "err" THEN records ELSE <<>>
     ELSE UNCHANGED <<putLog, records>>
  /\ dWait' = 0
  /\ dAge' = 0
  /\ UNCHANGED <<dpc, dQueues, dAdmit, dConn, dRet, cfgVars, procVars, dispVars,
                 fwdVars, supVars>>

\* case <-time.After(d.flushInterval): flush when i > 0.
DlvTimer(outs) ==
  /\ Alive /\ dpc = "select"
  /\ dWait = flushInterval
  /\ IF records # <<>>
     THEN /\ \E out \in outs :
               putLog' = PutBatch(records, "timer", out)
          /\ records' = <<>>
     ELSE UNCHANGED <<putLog, records>>
  /\ dWait' = 0
  /\ dAge' = 0
  /\ UNCHANGED <<dpc, dQueues, dAdmit, dConn, dRet, cfgVars, procVars, dispVars,
                 fwdVars, supVars>>

\* Time passes while the select of Process waits with no case ready.
Tick ==
  /\ Alive /\ dpc = "select"
  /\ dQueues[DMessages] = <<>>
  /\ ~cancelled
  /\ dWait < flushInterval
  /\ dWait' = dWait + 1
  /\ dAge' = IF records # <<>> THEN dAge + 1 ELSE dAge
  /\ UNCHANGED <<dpc, dQueues, dAdmit, records, putLog, dConn, dRet,
                 cfgVars, procVars, dispVars, fwdVars, supVars>>


\* ------------------------------------------------------------ Dispatcher
\* The requests a client may send.  keys: pairs <<Basic-auth user, writeKey of
\* the JSON body>> ("" is no Authorization header, "absent" no writeKey field).
BadRequest(kind) ==
  [kind |-> kind, decodeOk |-> FALSE, authKey |-> "k1", bodyKey |-> "absent",
   bctx |-> "none", msgs |-> <<>>, timeout |-> FALSE]

EventInputs(keys, msgs, timeouts) ==
  {[kind |-> "event", decodeOk |-> TRUE, authKey |-> ak[1], bodyKey |-> ak[2],
    bctx |-> "none", msgs |-> <<m>>, timeout |-> t] :
      ak \in keys, m \in msgs, t \in timeouts}

BatchInputs(keys, ctxs, msgseqs, timeouts) ==
  {[kind |-> "batch", decodeOk |-> TRUE, authKey |-> ak, bodyKey |-> "absent",
    bctx |-> c, msgs |-> ms, timeout |-> t] :
      ak \in keys, c \in ctxs, ms \in msgseqs, t \in timeouts}

\* A handler that leaves each message's own context in place.
NormalizeKeepContext(kind, msg, key, proj, bctx, rid, j, n) ==
  [rid |-> rid, idx |-> j, writeKey |-> key, projectId |-> proj,
   context |-> msg.context,
   messageId |-> IF msg.messageId = "" THEN NewUuid(n + 1) ELSE msg.messageId]

\* The event handed to the destinations for message msg: the handler sets the
\* write key, the project id and (in a batch) the context; send fills the
\* message id when it is empty.
Normalize(kind, msg, key, proj, bctx, rid, j, n) ==
  [rid |-> rid, idx |-> j, writeKey |-> key, projectId |-> proj,
   context |-> IF kind = "batch" THEN bctx ELSE msg.context,
   messageId |-> IF msg.messageId = "" THEN NewUuid(n + 1) ELSE msg.messageId]

\* A handler that takes whatever the lookup returned.
UnresolvedNever(proj) == FALSE

\* The handlers' test of the project id the lookup returned.
Unresolved(proj) == proj = ""

\* The handler writes its response and returns without calling send.
Reject(rid, code, why) ==
  /\ resp' = Append(resp, [rid |-> rid, status |-> code, err |-> why])
  /\ UNCHANGED <<hs, nUuid, acceptLog>>

\* The handler calls send for message j: send's prologue, then its loop is at
\* the first destination.
StartEvent(h, rec, j) ==
  /\ hs' = [hs EXCEPT ![h] =
              [rec EXCEPT !.pc = "send", !.j = j, !.k = 1, !.cref = 0, !.ai = 0,
                          !.ev = Normalize(rec.kind, rec.msgs[j], rec.key, rec.proj,
                                           rec.bctx, rec.rid, j, nUuid)]]
  /\ nUuid' = IF rec.msgs[j].messageId = "" THEN nUuid + 1 ELSE nUuid

Begin(h, rid, in, key, proj) ==
  /\ StartEvent(h, [IdleH EXCEPT !.rid = rid, !.kind = in.kind, !.msgs = in.msgs,
                                 !.key = key, !.proj = proj, !.bctx = in.bctx,
                                 !.timeout = in.timeout], 1)
  /\ UNCHANGED <<resp, acceptLog>>

\* handleEvent up to its call of send.
HandleEvent(h, in, limit) ==
  /\ Alive /\ hs[h].pc = "idle"
  /\ in.kind = "event"
  /\ nReq < limit /\ nMsgs + Len(in.msgs) <= limit
  /\ nReq' = nReq + 1
  /\ nMsgs' = nMsgs + Len(in.msgs)
  /\ LET key == IF in.bodyKey # "absent" THEN in.bodyKey ELSE in.authKey
         proj == ProjectIdOf(key)
     IN IF ~in.decodeOk THEN Reject(nReq + 1, 400, "decode")
        ELSE IF Unresolved(proj) THEN Reject(nReq + 1, 400, "noproject")
        ELSE Begin(h, nReq + 1, in, key, proj)
  /\ UNCHANGED <<cfgVars, procVars, dlvVars, fwdVars, supVars>>

\* handleBatch up to its first call of send.
HandleBatch(h, in, limit) ==
  /\ Alive /\ hs[h].pc = "idle"
  /\ in.kind = "batch"
  /\ nReq < limit /\ nMsgs + Len(in.msgs) <= limit
  /\ nReq' = nReq + 1
  /\ nMsgs' = nMsgs + Len(in.msgs)
  /\ LET proj == ProjectIdOf(in.authKey)
     IN IF ~in.decodeOk THEN Reject(nReq + 1, 400, "decode")
        ELSE IF in.authKey = "" THEN Reject(nReq + 1, 401, "noauth")
        ELSE IF Unresolved(proj) THEN Reject(nReq + 1, 401, "noproject")
        ELSE IF in.msgs = <<>>
        THEN /\ resp' = Append(resp, [rid |-> nReq + 1, status |-> 200, err |-> "nil"])
             /\ UNCHANGED <<hs, nUuid, acceptLog>>
        ELSE Begin(h, nReq + 1, in, in.authKey, proj)
  /\ UNCHANGED <<cfgVars, procVars, dlvVars, fwdVars, supVars>>

\* A send that goes on to the next destination after an error.
CompleteNoBreak(h, res) ==
  LET rec == hs[h] IN
  IF rec.k < Len(destinations)
  THEN /\ hs' = [hs EXCEPT ![h].k = rec.k + 1, ![h].pc = "send"]
       /\ UNCHANGED <<resp, nUuid>>
  ELSE /\ hs' = [hs EXCEPT ![h] = IdleH]
       /\ resp' = Append(resp, [rid |-> rec.rid,
                                 status |-> IF res = "nil" THEN 200 ELSE 500,
                                 err |-> res])
       /\ UNCHANGED nUuid

\* A handleBatch that goes on with the next message after a failed send.
CompleteNextMessage(h, res) ==
  LET rec == hs[h] IN
  IF res = "nil" /\ rec.k < Len(destinations)
  THEN /\ hs' = [hs EXCEPT ![h].k = rec.k + 1, ![h].pc = "send"]
       /\ UNCHANGED <<resp, nUuid>>
  ELSE IF rec.j < Len(rec.msgs)
  THEN /\ StartEvent(h, rec, rec.j + 1)
       /\ UNCHANGED resp
  ELSE /\ hs' = [hs EXCEPT ![h] = IdleH]
       /\ resp' = Append(resp, [rid |-> rec.rid,
                                 status |-> IF res = "nil" THEN 200 ELSE 500,
                                 err |-> res])
       /\ UNCHANGED nUuid

\* What send and its caller do once dest.Send has returned res for the event:
\* an error is returned at once and answered with 500; otherwise the next
\* destination, then the next message of the batch, then the 200 response.
Complete(h, res) ==
  LET rec == hs[h] IN
  IF res # "nil"
  THEN /\ hs' = [hs EXCEPT ![h] = IdleH]
       /\ resp' = Append(resp, [rid |-> rec.rid, status |-> 500, err |-> res])
       /\ UNCHANGED nUuid
  ELSE IF rec.k < Len(destinations)
  THEN /\ hs' = [hs EXCEPT ![h].k = rec.k + 1, ![h].pc = "send"]
       /\ UNCHANGED <<resp, nUuid>>
  ELSE IF rec.j < Len(rec.msgs)
  THEN /\ StartEvent(h, rec, rec.j + 1)
       /\ UNCHANGED resp
  ELSE /\ hs' = [hs EXCEPT ![h] = IdleH]
       /\ resp' = Append(resp, [rid |-> rec.rid, status |-> 200, err |-> "nil"])
       /\ UNCHANGED nUuid

Call(h, sink, res) ==
  [rid |-> hs[h].rid, idx |-> hs[h].j, k |-> hs[h].k, sink |-> sink,
   ev |-> hs[h].ev, res |-> res]

\* The timeout of contextTimeout elapses.  ctx.Done() is read in one place,
\* the select of Delivery.Send, so the step is taken while a Send waits there.
DeadlineFire(h) ==
  /\ Alive /\ hs[h].pc = "blocked"
  /\ hs[h].timeout /\ ~hs[h].ctxDone
  /\ hs' = [hs EXCEPT ![h].ctxDone = TRUE]
  /\ UNCHANGED <<nReq, nMsgs, nUuid, acceptLog, resp,
                 cfgVars, procVars, dlvVars, fwdVars, supVars>>

\* ------------------------------------------------- Delivery.Send (accept)
\* A Send that also answers not ready when Process is not in its loop.
DlvSendEnterWhileRunning(h) ==
  /\ Alive /\ hs[h].pc = "send"
  /\ destinations[hs[h].k] = "dlv"
  /\ IF DMessages = 0 \/ dpc # "select"
     THEN /\ acceptLog' = Append(acceptLog, Call(h, "dlv", "notready"))
          /\ Complete(h, "notready")
     ELSE /\ acceptLog' = Append(acceptLog, Call(h, "dlv", "pending"))
          /\ hs' = [hs EXCEPT ![h].pc = "blocked", ![h].cref = DMessages,
                              ![h].ai = Len(acceptLog) + 1]
          /\ UNCHANGED <<resp, nUuid>>
  /\ UNCHANGED <<nReq, nMsgs, cfgVars, procVars, dlvVars, fwdVars, supVars>>

\* The read is not synchronised with the assignment in Process: it is one
\* word and yields nil or a channel Process made, as this step is taken before
\* or after DlvConnect.
\* Send reads d.messages: nil is the not-ready error; otherwise it enters
\* the select on that channel.
DlvSendEnter(h) ==
  /\ Alive /\ hs[h].pc = "send"
  /\ destinations[hs[h].k] = "dlv"
  /\ IF DMessages = 0
     THEN /\ acceptLog' = Append(acceptLog, Call(h, "dlv", "notready"))
          /\ Complete(h, "notready")
     ELSE /\ acceptLog' = Append(acceptLog, Call(h, "dlv", "pending"))
          /\ hs' = [hs EXCEPT ![h].pc = "blocked", ![h].cref = DMessages,
                              ![h].ai = Len(acceptLog) + 1]
          /\ UNCHANGED <<resp, nUuid>>
  /\ UNCHANGED <<nReq, nMsgs, cfgVars, procVars, dlvVars, fwdVars, supVars>>

\* case d.messages <- message: the channel has room.
DlvSendEnqueue(h) ==
  /\ Alive /\ hs[h].pc = "blocked"
  /\ Len(dQueues[hs[h].cref]) < QueueCap
  /\ dQueues' = [dQueues EXCEPT ![hs[h].cref] = Append(@, hs[h].ev)]
  /\ dAdmit' = [dAdmit EXCEPT ![hs[h].cref] = Append(@, hs[h].ev)]
  /\ acceptLog' = [acceptLog EXCEPT ![hs[h].ai].res = "nil"]
  /\ Complete(h, "nil")
  /\ UNCHANGED <<nReq, nMsgs, dpc, records, dWait, dAge, putLog, dConn, dRet,
                 cfgVars, procVars, fwdVars, supVars>>

\* A Send whose select has no ctx.Done() case.
DlvSendNoCancel(h) ==
  /\ FALSE
  /\ UNCHANGED vars

\* case <-ctx.Done(): return ctx.Err().
DlvSendCancel(h) ==
  /\ Alive /\ hs[h].pc = "blocked"
  /\ hs[h].ctxDone
  /\ acceptLog' = [acceptLog EXCEPT ![hs[h].ai].res = "ctxerr"]
  /\ Complete(h, "ctxerr")
  /\ UNCHANGED <<nReq, nMsgs, cfgVars, procVars, dlvVars, fwdVars, supVars>>

\* ------------------------------------------------------------ Forwarder
\* A channel with a slot of its own: the send also succeeds while Process is
\* busy with the message before.
FwdSlotFree == fpc \in {"recv", "sending"} /\ ~cancelled

\* Whether the non-blocking send on the unbuffered f.messages finds Process
\* waiting in its select.
FwdReceiverWaiting == fpc = "recv" /\ ~cancelled

LastTwo(q) == IF Len(q) > 2 THEN Tail(q) ELSE q

\* A Send without the default case: it waits for Process to receive.
FwdSendBlocking(h) ==
  /\ Alive /\ hs[h].pc = "send"
  /\ destinations[hs[h].k] = "fwd"
  /\ FwdReceiverWaiting
  /\ fpc' = "sending"
  /\ fCur' = hs[h].ev
  /\ fSent' = Append(fSent, hs[h].ev)
  /\ fRecent' = LastTwo(Append(fRecent, "placed"))
  /\ acceptLog' = Append(acceptLog, Call(h, "fwd", "nil"))
  /\ Complete(h, "nil")
  /\ UNCHANGED <<nReq, nMsgs, fSkipped, fSuccess, fFailure, fErr,
                 cfgVars, procVars, dlvVars, supVars>>

\* Forwarder.Send: hand the message to the waiting Process, or count a skip;
\* nil either way.
FwdSend(h) ==
  /\ Alive /\ hs[h].pc = "send"
  /\ destinations[hs[h].k] = "fwd"
  /\ IF FwdReceiverWaiting
     THEN /\ fpc' = "sending"
          /\ fCur' = hs[h].ev
          /\ fSent' = Append(fSent, hs[h].ev)
          /\ fRecent' = LastTwo(Append(fRecent, "placed"))
          /\ UNCHANGED fSkipped
     ELSE /\ fSkipped' = fSkipped + 1
          /\ fRecent' = LastTwo(Append(fRecent, "skipped"))
          /\ UNCHANGED <<fpc, fCur, fSent>>
  /\ acceptLog' = Append(acceptLog, Call(h, "fwd", "nil"))
  /\ Complete(h, "nil")
  /\ UNCHANGED <<nReq, nMsgs, fSuccess, fFailure, fErr, cfgVars, procVars, dlvVars,
                 supVars>>

\* Process reaches its select.
FwdStart ==
  /\ Alive /\ fpc = "entry"
  /\ fpc' = "recv"
  /\ fRecent' = <<>>
  /\ UNCHANGED <<fCur, fSkipped, fSuccess, fFailure, fErr, fSent,
                 cfgVars, procVars, dispVars, dlvVars, supVars>>

\* A Process that sends the same message again after a failure.
FwdHttpReturnRetry(outs) ==
  /\ Alive /\ fpc = "sending"
  /\ \E out \in outs :
       /\ fSuccess' = IF out = "ok" THEN fSuccess + 1 ELSE fSuccess
       /\ fFailure' = IF out = "err" THEN fFailure + 1 ELSE fFailure
       /\ fErr' = IF out = "err" THEN "httperr" ELSE "nil"
       /\ fpc' = IF out = "err" /\ fFailure < 1 THEN "sending" ELSE "recv"
       /\ fCur' = IF out = "err" /\ fFailure < 1 THEN fCur ELSE NoEv
       /\ fSent' = IF out = "err" /\ fFailure < 1 THEN Append(fSent, fCur) ELSE fSent
  /\ fRecent' = <<>>
  /\ UNCHANGED <<fSkipped, cfgVars, procVars, dispVars, dlvVars, supVars>>

\* f.send returns: httpDo got the response (or the transport's error).
FwdHttpReturn(outs) ==
  /\ Alive /\ fpc = "sending"
  /\ \E out \in outs :
       /\ fSuccess' = IF out = "ok" THEN fSuccess + 1 ELSE fSuccess
       /\ fFailure' = IF out = "err" THEN fFailure + 1 ELSE fFailure
       /\ fErr' = IF out = "err" THEN "httperr" ELSE "nil"
  /\ fpc' = "recv"
  /\ fCur' = NoEv
  /\ fRecent' = <<>>
  /\ UNCHANGED <<fSkipped, fSent, cfgVars, procVars, dispVars, dlvVars, supVars>>

\* A Process that returns the error of a cancelled request.
FwdHttpCancelPropagate ==
  /\ Alive /\ fpc = "sending"
  /\ cancelled
  /\ fFailure' = fFailure + 1
  /\ fErr' = "ctxerr"
  /\ fpc' = "returned"
  /\ fCur' = NoEv
  /\ fRecent' = <<>>
  /\ SupAfterProcess("fwd", "ctxerr")
  /\ UNCHANGED <<fSkipped, fSuccess, fSent, cfgVars, procVars, dispVars, dlvVars>>

\* httpDo's case <-ctx.Done(): the request is cancelled and ctx.Err() comes
\* back to Process, which counts a failure and goes on with its loop.
FwdHttpCancel ==
  /\ Alive /\ fpc = "sending"
  /\ cancelled
  /\ fFailure' = fFailure + 1
  /\ fErr' = "ctxerr"
  /\ fpc' = "recv"
  /\ fCur' = NoEv
  /\ fRecent' = <<>>
  /\ UNCHANGED <<fSkipped, fSuccess, fSent,
                 cfgVars, procVars, dispVars, dlvVars, supVars>>

\* case <-ctx.Done(): return nil.
FwdCtxDone ==
  /\ Alive /\ fpc = "recv"
  /\ cancelled
  /\ fpc' = "returned"
  /\ SupAfterProcess("fwd", "nil")
  /\ fRecent' = <<>>
  /\ UNCHANGED <<fCur, fSkipped, fSuccess, fFailure, fErr, fSent,
                 cfgVars, procVars, dispVars, dlvVars>>

\* ----------------------------------------------------------- Segment.Run
InitSup == [pc |-> "init", i |-> 0, calls |-> 0, sleeps |-> <<>>, rets |-> <<>>,
            slept |-> 0]

Configured(d) == \E n \in 1..Len(destinations) : destinations[n] = d

\* Run starts one goroutine per destination; each calls dest.Process(ctx).
Run ==
  /\ Alive /\ ~started
  /\ started' = TRUE
  /\ sup' = [d \in Sinks |->
               IF Configured(d) THEN [InitSup EXCEPT !.pc = "calling", !.calls = 1]
               ELSE sup[d]]
  /\ dpc' = IF Configured("dlv") THEN "entry" ELSE dpc
  /\ fpc' = IF Configured("fwd") THEN "entry" ELSE fpc
  /\ UNCHANGED <<cancelled, exited, sentAtCancel, done, doneClosed, dQueues, dAdmit, records,
                 dWait, dAge, putLog, dConn, dRet, fCur, fSkipped, fSuccess, fFailure, fErr,
                 fSent,
                 fRecent, cfgVars, dispVars>>

\* backoff variant: backo.Sleep(i) is over and i++; either Process is called
\* again or, with i = backoRetry, the loop ends and Logger.Fatal(err) exits.
SupWake(dest) ==
  /\ Alive /\ variant = "backoff"
  /\ sup[dest].pc = "sleeping"
  /\ IF sup[dest].i + 1 < BackoRetry
     THEN /\ sup' = [sup EXCEPT ![dest].i = @ + 1, ![dest].pc = "calling",
                                ![dest].calls = @ + 1]
          /\ dpc' = IF dest = "dlv" THEN "entry" ELSE dpc
          /\ fpc' = IF dest = "fwd" THEN "entry" ELSE fpc
          /\ UNCHANGED exited
     ELSE /\ sup' = [sup EXCEPT ![dest].i = @ + 1, ![dest].pc = "fatal"]
          /\ exited' = TRUE
          /\ UNCHANGED <<dpc, fpc>>
  /\ UNCHANGED <<cancelled, started, sentAtCancel, done, doneClosed, dQueues, dAdmit, records,
                 dWait, dAge, putLog, dConn, dRet, fCur, fSkipped, fSuccess, fFailure, fErr,
                 fSent,
                 fRecent, cfgVars, dispVars>>

\* backo.Sleep(i) is time.Sleep(Duration(i)): the time it takes, counted in
\* units of the base delay.
SleepTicks(ms) == ms \div BackoBase

\* Time passes in backo.Sleep(i), whatever the state of the context.
SleepTick(dest) ==
  /\ Alive /\ variant = "backoff"
  /\ sup[dest].pc = "sleeping"
  /\ sup[dest].slept < SleepTicks(sup[dest].sleeps[Len(sup[dest].sleeps)])
  /\ sup' = [sup EXCEPT ![dest].slept = @ + 1]
  /\ UNCHANGED <<done, doneClosed, cfgVars, procVars, dispVars, dlvVars, fwdVars>>

\* backo.Sleep(i) returns when its whole duration has passed.
SupWakeTimed(dest) ==
  /\ sup[dest].pc = "sleeping"
  /\ sup[dest].slept = SleepTicks(sup[dest].sleeps[Len(sup[dest].sleeps)])
  /\ SupWake(dest)

\* errchan variant: wg.Wait() returns once every goroutine has called
\* wg.Done(); then close(done).
SupClose ==
  /\ Alive /\ variant = "errchan"
  /\ started /\ ~doneClosed
  /\ \A d \in Sinks : Configured(d) => sup[d].pc = "ended"
  /\ doneClosed' = TRUE
  /\ UNCHANGED <<sup, done, cfgVars, procVars, dispVars, dlvVars, fwdVars>>

\* The calls of sink's Send that have returned nil.
Accepted(sink) ==
  Cardinality({n \in 1..Len(acceptLog) :
                 acceptLog[n].sink = sink /\ acceptLog[n].res = "nil"})

\* The caller of Run cancels the context.
Cancel ==
  /\ Alive /\ ~cancelled
  /\ cancelled' = TRUE
  /\ sentAtCancel' = Accepted("dlv")
  /\ UNCHANGED <<exited, started, cfgVars, dispVars, dlvVars, fwdVars, supVars>>

\* ------------------------------------------------------------------ Init
\* The state after NewForwarder, NewDelivery and NewSegment, for a choice of
\* the configuration.
InitWith(dests, variants, batchSizes, intervals) ==
  /\ destinations \in dests
  /\ variant \in variants
  /\ config \in [BatchSize : batchSizes, FlushInterval : intervals]
  /\ size = ClampBatchSize(config.BatchSize)
  /\ flushInterval = DefaultInterval(config.FlushInterval)
  /\ cancelled = FALSE /\ exited = FALSE /\ started = FALSE /\ sentAtCancel = 0
  /\ hs = [h \in Handlers |-> IdleH]
  /\ nReq = 0 /\ nMsgs = 0 /\ nUuid = 0 /\ acceptLog = <<>> /\ resp = <<>>
  /\ dpc = "idle" /\ dQueues = <<>> /\ dAdmit = <<>> /\ records = <<>> /\ dWait = 0 /\ dAge = 0
  /\ putLog = <<>>
  /\ dConn = [describe |-> "none", creates |-> 0, create |-> "none", err |-> "none"]
  /\ dRet = "none"
  /\ fpc = "idle" /\ fCur = NoEv /\ fSkipped = 0 /\ fSuccess = 0 /\ fFailure = 0
  /\ fErr = "none"
  /\ fSent = <<>> /\ fRecent = <<>>
  /\ sup = [d \in Sinks |-> InitSup]
  /\ done = <<>> /\ doneClosed = FALSE

\* ------------------------------------------------------ the whole system
\* Both destinations behind the dispatcher as the README wires them: Run is
\* given context.Background(), which is never cancelled.  One handler; the
\* destinations answer every outbound call.
Keys == {<<"k1", "absent">>, <<"bad", "absent">>, <<"", "absent">>, <<"bad", "k1">>}

OwnMsg == [messageId |-> "", context |-> "c1"]

AllEvents == EventInputs(Keys, {OwnMsg}, BOOLEAN) \cup {BadRequest("event")}

AllBatches ==
  BatchInputs({"k1", "bad", ""}, {"none", "cB"}, SeqsUpTo({OwnMsg}, MaxMsgs), BOOLEAN)
    \cup {BadRequest("batch")}

Init == InitWith({<<"fwd", "dlv">>, <<"dlv", "fwd">>}, {"errchan"}, {1}, {1})

Next ==
  \/ \E in \in AllEvents : HandleEvent("h1", in, MaxMsgs)
  \/ \E in \in AllBatches : HandleBatch("h1", in, MaxMsgs)
  \/ DeadlineFire("h1")
  \/ DlvSendEnter("h1")
  \/ DlvSendEnqueue("h1")
  \/ DlvSendCancel("h1")
  \/ FwdSend("h1")
  \/ FwdStart
  \/ FwdHttpReturn(Healthy)
  \/ DlvConnect
  \/ DlvRecv(Healthy)
  \/ DlvTimer(Healthy)
  \/ Tick
  \/ Run

Spec == Init /\ [][Next]_vars

\* ------------------------------------------------- the Delivery destination
\* Delivery alone behind the dispatcher, one handler sending single events,
\* Run in its error-channel variant (one Process invocation).
GoodEvents == EventInputs({<<"k1", "absent">>}, {OwnMsg}, BOOLEAN)

InitDelivery == InitWith({<<"dlv">>}, {"errchan"}, {2, 3}, {1})

NextDelivery ==
  \/ \E in \in GoodEvents : HandleEvent("h1", in, MaxEvents)
  \/ DeadlineFire("h1")
  \/ DlvSendEnter("h1")
  \/ DlvSendEnqueue("h1")
  \/ DlvSendCancel("h1")
  \/ DlvConnect
  \/ DlvRecv(Outcomes)
  \/ DlvCtxDone(Outcomes)
  \/ DlvTimer(Outcomes)
  \/ Tick
  \/ Run
  \/ SupClose
  \/ Cancel

SpecDelivery == InitDelivery /\ [][NextDelivery]_vars

\* ------------------------------------------------ the Forwarder destination
\* Forwarder alone behind the dispatcher, two handlers sending single events.
InitForwarder == InitWith({<<"fwd">>}, {"errchan"}, {1}, {1})

NextForwarder ==
  \/ \E h \in Handlers, in \in GoodEvents : HandleEvent(h, in, MaxEvents)
  \/ \E h \in Handlers : FwdSend(h)
  \/ FwdStart
  \/ FwdHttpReturn(Outcomes)
  \/ FwdHttpCancel
  \/ FwdCtxDone
  \/ Run
  \/ SupClose
  \/ Cancel

SpecForwarder == InitForwarder /\ [][NextForwarder]_vars

\* ------------------------------------------------------------ Segment.Run
\* Run over its destinations, in both variants, with a little traffic.
InitRun == InitWith({<<"fwd", "dlv">>, <<"dlv">>}, {"backoff", "errchan"}, {1}, {1})

NextRun ==
  \/ \E in \in GoodEvents : HandleEvent("h1", in, MaxMsgs)
  \/ DeadlineFire("h1")
  \/ DlvSendEnter("h1")
  \/ DlvSendEnqueue("h1")
  \/ DlvSendCancel("h1")
  \/ FwdSend("h1")
  \/ FwdStart
  \/ FwdHttpReturn(Healthy)
  \/ FwdHttpCancel
  \/ FwdCtxDone
  \/ DlvConnect
  \/ DlvRecv(Outcomes)
  \/ DlvCtxDone(Outcomes)
  \/ DlvTimer(Outcomes)
  \/ Tick
  \/ Run
  \/ \E d \in Sinks : SupWake(d)
  \/ SupClose
  \/ Cancel

SpecRun == InitRun /\ [][NextRun]_vars

\* ============================================================ properties
IsError(res) == res \notin {"nil", "pending"}

SameEvent(a, b) == a.rid = b.rid /\ a.idx = b.idx

\* C1: when the Send of the sink at index i returns an error for an event, no
\* sink at a later index is called for that event, no sink is called twice for
\* it, and send returns that very error: the request is answered 500 with it.
C1_FanOutShortCircuit ==
  \A m \in 1..Len(acceptLog) :
    LET a == acceptLog[m] IN
    /\ \A n \in 1..Len(acceptLog) :
         (n # m /\ SameEvent(acceptLog[n], a)) => acceptLog[n].k # a.k
    /\ IsError(a.res) =>
         /\ \A n \in 1..Len(acceptLog) : SameEvent(acceptLog[n], a) => acceptLog[n].k <= a.k
         /\ \A n \in (m + 1)..Len(acceptLog) : acceptLog[n].rid # a.rid
         /\ \E r \in 1..Len(resp) :
              resp[r] = [rid |-> a.rid, status |-> 500, err |-> a.res]

\* The first of two sinks has failed an event after an earlier event went
\* through both, and the request has its answer.
C1_Witness ==
  /\ destinations = <<"dlv", "fwd">>
  /\ \E m \in 1..Len(acceptLog) : acceptLog[m].res = "nil" /\ acceptLog[m].k = 2
  /\ \E m \in 1..Len(acceptLog) :
       /\ acceptLog[m].res = "ctxerr" /\ acceptLog[m].k = 1
       /\ \E r \in 1..Len(resp) : resp[r].rid = acceptLog[m].rid

\* C2: no sink is called for an event of a request whose write key the lookup
\* maps to the empty project id; such a request is answered 400 (event) or
\* 401 (batch); every event that reaches a sink carries the non-empty project
\* id of its request's write key.
C2_ProjectResolution ==
  /\ \A m \in 1..Len(acceptLog) :
       /\ acceptLog[m].ev.projectId # ""
       /\ acceptLog[m].ev.projectId = ProjectIdOf(acceptLog[m].ev.writeKey)
  /\ \A r \in 1..Len(resp) :
       resp[r].err = "noproject" =>
         /\ resp[r].status \in {400, 401}
         /\ \A m \in 1..Len(acceptLog) : acceptLog[m].rid # resp[r].rid
         /\ \A h \in Handlers : hs[h].rid # resp[r].rid

\* An event request and a batch request have both been refused for their
\* write key.
C2_Witness ==
  /\ \E r \in 1..Len(resp) : resp[r].err = "noproject" /\ resp[r].status = 400
  /\ \E r \in 1..Len(resp) : resp[r].err = "noproject" /\ resp[r].status = 401

\* The sizes of the batches put so far, in order.
FlushSizes == [n \in 1..Len(putLog) |-> Len(putLog[n].recs)]

\* floor(k/N) batches of N, then one of k mod N when that is not zero.
ExpectedFlushes(k, N) ==
  [n \in 1..((k \div N) + (IF k % N > 0 THEN 1 ELSE 0)) |->
     IF n <= k \div N THEN N ELSE k % N]

NoTimerFlush == \A n \in 1..Len(putLog) : putLog[n].trigger # "timer"

\* C3: with capacity N (size), when k events have been submitted (their Send
\* returned nil), the context is cancelled after them, no timer flush has
\* fired and Process has returned, the batches put are floor(k/N) of exactly N
\* events, each put when the buffer reached N, then one final batch of k mod N.
C3_SizeTriggeredFlush ==
  ( /\ dpc = "returned" /\ DMessages > 0
    /\ cancelled /\ Accepted("dlv") = sentAtCancel
    /\ NoTimerFlush )
  => /\ FlushSizes = ExpectedFlushes(sentAtCancel, size)
     /\ \A n \in 1..Len(putLog) :
          putLog[n].trigger = IF n <= sentAtCancel \div size THEN "size" ELSE "final"

\* C4: the step in which Process observes the cancellation with m > 0 events in
\* records[:i] puts exactly one batch, of exactly those m events, and returns
\* without receiving from d.messages; once returned it puts and receives
\* nothing more.
C4_FinalDrain ==
  [][ /\ (dpc = "select" /\ dpc' = "returned" /\ records # <<>>) =>
           /\ cancelled
           /\ Len(putLog') = Len(putLog) + 1
           /\ SubSeq(putLog', 1, Len(putLog)) = putLog
           /\ putLog'[Len(putLog')].recs = records
           /\ putLog'[Len(putLog')].trigger = "final"
           /\ records' = <<>>
           /\ dQueues' = dQueues
      /\ (dpc = "returned" /\ dpc' = "returned") =>
           /\ putLog' = putLog
           /\ Len(dQueues') = Len(dQueues)
           /\ \A g \in 1..Len(dQueues) :
                /\ Len(dQueues'[g]) >= Len(dQueues[g])
                /\ SubSeq(dQueues'[g], 1, Len(dQueues[g])) = dQueues[g]
    ]_vars

\* Process has returned after a final batch of two events, leaving an event
\* in d.messages.
C4_Witness ==
  /\ dpc = "returned" /\ cancelled
  /\ putLog # <<>>
  /\ putLog[Len(putLog)].trigger = "final"
  /\ Len(putLog[Len(putLog)].recs) = 2
  /\ dQueues[DMessages] # <<>>

C8_DropSinkAcceptNeverBlocks ==
  /\ \A h \in Handlers :
       (Alive /\ hs[h].pc = "send" /\ destinations[hs[h].k] = "fwd") => ENABLED FwdSend(h)
  /\ \A h \in Handlers : hs[h].pc # "blocked"
  /\ \A m \in 1..Len(acceptLog) :
       acceptLog[m].sink = "fwd" => acceptLog[m].res = "nil"
  /\ Len(acceptLog) = Len(fSent) + fSkipped

\* Send has returned after Process returned, and before that while Process
\* was busy, and once it handed a message over.
C8_Witness ==
  /\ fpc = "returned" /\ fRecent = <<"skipped">>
  /\ fSkipped >= 2 /\ fSent # <<>>
  /\ fFailure >= 1

\* --------------------------------------------- Delivery.Send under deadline
\* Delivery alone with batch size 1, so that d.messages holds two events, and
\* three events to send; a deadline that has been set fires, and a Send whose
\* context is done gets to run.
MaxLive == MaxMsgs + 1

InitLive == InitWith({<<"dlv">>}, {"errchan"}, {1}, {1})

NextLive ==
  \/ \E in \in GoodEvents : HandleEvent("h1", in, MaxLive)
  \/ DeadlineFire("h1")
  \/ DlvSendEnter("h1")
  \/ DlvSendEnqueue("h1")
  \/ DlvSendCancel("h1")
  \/ DlvConnect
  \/ DlvRecv(Outcomes)
  \/ DlvCtxDone(Outcomes)
  \/ DlvTimer(Outcomes)
  \/ Tick
  \/ Run
  \/ SupClose
  \/ Cancel

SpecLive ==
  /\ InitLive /\ [][NextLive]_vars
  /\ WF_vars(DeadlineFire("h1"))
  /\ WF_vars(DlvSendCancel("h1"))

\* The retries of one goroutine of Run in the backoff variant.
RetryDiscipline(d) ==
  LET s == sup[d] IN
  /\ s.calls <= BackoRetry
  /\ s.calls = Len(s.rets) + (IF s.pc = "calling" THEN 1 ELSE 0)
  /\ \A n \in 1..Len(s.rets) :
       s.rets[n] = "nil" => (n = Len(s.rets) /\ s.pc = "ended" /\ s.calls = n)
  /\ s.pc = "ended" =>
       /\ s.rets # <<>> /\ s.rets[Len(s.rets)] = "nil"
       /\ Len(s.sleeps) = s.calls - 1
  /\ Len(s.sleeps) = Cardinality({n \in 1..Len(s.rets) : s.rets[n] # "nil"})
  /\ \A n \in 1..Len(s.sleeps) :
       /\ s.sleeps[n] = BackoDuration(n - 1)
       /\ s.sleeps[n] >= BackoBase /\ s.sleeps[n] <= BackoCap
       /\ n > 1 => s.sleeps[n - 1] <= s.sleeps[n]

C7_AcceptHonorsDeadline ==
  /\ \A h \in {"h1"} : (hs[h].pc = "blocked" /\ hs[h].timeout) ~> (hs[h].pc # "blocked")
  /\ [][\A h \in {"h1"} :
          (hs[h].pc = "blocked" /\ hs'[h].pc # "blocked"
             /\ acceptLog'[hs[h].ai].res = "ctxerr") => hs[h].ctxDone]_vars

\* A Send with a deadline has returned the context's error while d.messages
\* was full and Process had returned.
C7_Witness ==
  /\ dpc = "returned" /\ DMessages > 0
  /\ Len(dQueues[DMessages]) = QueueCap
  /\ acceptLog # <<>> /\ acceptLog[Len(acceptLog)].res = "ctxerr"
  /\ hs["h1"].pc = "idle"

\* C9: a failed PutRecordBatch neither ends Process nor makes it return an
\* error; Process returns an error only when Connect failed.
C9_FlushFailureNonFatal ==
  /\ dRet \in {"none", "nil", "connecterr"}
  /\ (dpc = "returned" /\ dRet # "connecterr") => cancelled

\* What Run's caller has been told about destination d.
Reported(d) == {n \in 1..Len(done) : done[n].dest = d}

\* C10: a goroutine of Run whose Process loop has ended, with nil or with the
\* retries used up, has put exactly one value on done; done is closed only
\* when all have; using up the retries is reported there and the process goes
\* on.
C10_CompletionSignal ==
  /\ \A d \in Sinks :
       /\ sup[d].pc \in {"ended", "fatal"} => Cardinality(Reported(d)) = 1
       /\ sup[d].pc \notin {"ended", "fatal"} => Reported(d) = {}
  /\ doneClosed => \A d \in Sinks : Configured(d) => sup[d].pc \in {"ended", "fatal"}
  /\ ~exited

\* --------------------------------------------------- Segment.Run's backoff
\* The backoff variant of Run over Delivery alone, with the time its sleeps
\* take; no requests.
InitBackoff == InitWith({<<"dlv">>}, {"backoff"}, {1}, {1})

NextBackoff ==
  \/ Run
  \/ DlvConnect
  \/ DlvCtxDone(Outcomes)
  \/ DlvTimer(Outcomes)
  \/ Tick
  \/ SleepTick("dlv")
  \/ SupWakeTimed("dlv")
  \/ Cancel

SpecBackoff == InitBackoff /\ [][NextBackoff]_vars

\* C11: once the context given to Run is cancelled, a goroutine of Run that is
\* in its backoff sleep does not go on sleeping: no more of the delay passes.
C11_CancellableBackoff ==
  [][\A d \in Sinks :
       (cancelled /\ sup[d].pc = "sleeping" /\ sup'[d].pc = "sleeping")
         => sup'[d].slept = sup[d].slept]_vars

\* C12 as the specification states it: when the context is cancelled while
\* Forwarder.Process is inside the outbound call, the call is aborted and
\* Process returns the context's error; cancelled with no call in progress,
\* Process returns nil.
C12_CancelMidCallPropagates ==
  /\ (fpc = "returned" /\ fErr = "ctxerr") =>
       (sup["fwd"].rets # <<>> /\ sup["fwd"].rets[Len(sup["fwd"].rets)] = "ctxerr")
  /\ (fpc = "returned" /\ fErr # "ctxerr") =>
       (sup["fwd"].rets # <<>> /\ sup["fwd"].rets[Len(sup["fwd"].rets)] = "nil")

\* C12, amended: when the context is cancelled while Forwarder.Process is
\* inside the outbound call, the call is aborted, the context's error comes
\* back to the loop, which counts it as a delivery failure and goes on to its
\* select; Process returns only from there, only once the context is
\* cancelled and with no call in progress, and it always returns nil.
C12_CancelMidCallCounted ==
  /\ \A n \in 1..Len(sup["fwd"].rets) : sup["fwd"].rets[n] = "nil"
  /\ fpc = "returned" => (cancelled /\ fCur = NoEv /\ sup["fwd"].rets # <<>>)
  /\ fErr = "ctxerr" => (cancelled /\ fFailure >= 1 /\ fpc \in {"recv", "returned"})
  /\ fSuccess + fFailure + (IF fpc = "sending" THEN 1 ELSE 0) = Len(fSent)

\* The outbound call was cut short by the cancellation and Process has
\* returned nil.
C12_Witness ==
  /\ fpc = "returned" /\ fErr = "ctxerr"
  /\ sup["fwd"].rets = <<"nil">>

\* ------------------------------------------------- Delivery's flush timer
\* Delivery alone with batch size 3 and a flush interval of two time units,
\* fed single events without a deadline; Run's context is never cancelled.
TimerInterval == 2

PlainEvents == EventInputs({<<"k1", "absent">>}, {OwnMsg}, {FALSE})

InitTimer == InitWith({<<"dlv">>}, {"errchan"}, {3}, {TimerInterval})

NextTimer ==
  \/ \E in \in PlainEvents : HandleEvent("h1", in, MaxEvents)
  \/ DlvSendEnter("h1")
  \/ DlvSendEnqueue("h1")
  \/ DlvConnect
  \/ DlvRecv(Outcomes)
  \/ DlvTimer(Outcomes)
  \/ Tick
  \/ Run

SpecTimer == InitTimer /\ [][NextTimer]_vars

\* C13: whenever records[:i] is not empty, the first of its events has been
\* there for one flush interval at most: the batch is put within one flush
\* interval of its first event, however further events arrive.
C13_TimeBasedFlushBound == records # <<>> => dAge <= flushInterval

RECURSIVE Concat(_)
Concat(ss) == IF ss = <<>> THEN <<>> ELSE Head(ss) \o Concat(Tail(ss))

Range(q) == {q[n] : n \in 1..Len(q)}

\* The events Delivery holds or has put: in a channel, in records[:i], or in
\* a batch given to PutRecordBatch.
DlvHolds ==
  Range(Concat(dQueues)) \cup Range(records)
    \cup UNION {Range(putLog[n].recs) : n \in 1..Len(putLog)}

\* Sink number k took message idx of request rid, and still has it: Delivery
\* holds it or has put it; Forwarder handed it to Process or counted a skip.
Submitted(rid, idx, k) ==
  \E m \in 1..Len(acceptLog) :
    LET a == acceptLog[m] IN
    /\ a.rid = rid /\ a.idx = idx /\ a.k = k /\ a.res = "nil"
    /\ a.sink = destinations[k]
    /\ a.sink = "dlv" => a.ev \in DlvHolds

\* C14: when the send of message j of a batch is the first to fail, no sink is
\* called for a later message of the batch, messages 1..j-1 remain submitted
\* to every sink, message j remains submitted to the sinks before the failing
\* one, and the request is answered with a failure.
C14_BatchAbortNoRollback ==
  /\ Accepted("fwd") = Len(fSent) + fSkipped
  /\ \A m \in 1..Len(acceptLog) :
       LET a == acceptLog[m] IN
       IsError(a.res) =>
         /\ \A n \in 1..Len(acceptLog) :
              acceptLog[n].rid = a.rid => acceptLog[n].idx <= a.idx
         /\ \A idx \in 1..(a.idx - 1) :
              \A k \in 1..Len(destinations) : Submitted(a.rid, idx, k)
         /\ \A k \in 1..(a.k - 1) : Submitted(a.rid, a.idx, k)
         /\ \E r \in 1..Len(resp) : resp[r].rid = a.rid /\ resp[r].status = 500
         /\ \A r \in 1..Len(resp) : resp[r].rid = a.rid => resp[r].status = 500

\* The second message of a batch failed at the second sink, after the first
\* message went to both.
C14_Witness ==
  \E m \in 1..Len(acceptLog) :
    /\ IsError(acceptLog[m].res)
    /\ acceptLog[m].idx = 2 /\ acceptLog[m].k = 2
    /\ acceptLog[m].ev.context = "cB"

\* ------------------------------------------------------------ message ids
\* Both destinations behind the dispatcher, fed events and batches whose
\* messages come with an id of the client's ("m1") or with none.
IdMsgs == [messageId : {"", "m1"}, context : {"c1"}]

IdEvents == EventInputs({<<"k1", "absent">>}, IdMsgs, {FALSE})

IdBatches == BatchInputs({"k1"}, {"cB"}, SeqsUpTo(IdMsgs, MaxMsgs), {FALSE})

InitIds == InitWith({<<"dlv", "fwd">>}, {"errchan"}, {1}, {1})

NextIds ==
  \/ \E in \in IdEvents : HandleEvent("h1", in, MaxMsgs)
  \/ \E in \in IdBatches : HandleBatch("h1", in, MaxMsgs)
  \/ DlvSendEnter("h1")
  \/ DlvSendEnqueue("h1")
  \/ FwdSend("h1")
  \/ FwdStart
  \/ FwdHttpReturn(Healthy)
  \/ DlvConnect
  \/ DlvRecv(Healthy)
  \/ Run

SpecIds == InitIds /\ [][NextIds]_vars

IsGenerated(id) == \E n \in 1..nUuid : id = NewUuid(n)

\* C15 as the specification states it: every event handed to a sink has a
\* non-empty message id, and no two events handed to the sinks have the same.
C15_MessageIdUnique ==
  \A m, n \in 1..Len(acceptLog) :
    /\ acceptLog[m].ev.messageId # ""
    /\ ~SameEvent(acceptLog[m], acceptLog[n]) =>
         acceptLog[m].ev.messageId # acceptLog[n].ev.messageId

\* C15, amended: every event handed to a sink has a non-empty message id; a
\* message that comes without an id gets a freshly generated one, a supplied
\* id is kept as it is; so two events have the same id only when the clients
\* supplied the same id for both.
C15_MessageIdKeptOrFresh ==
  /\ [](\A m, n \in 1..Len(acceptLog) :
          /\ acceptLog[m].ev.messageId # ""
          /\ acceptLog[m].ev = acceptLog[n].ev \/ ~SameEvent(acceptLog[m], acceptLog[n])
          /\ ( /\ ~SameEvent(acceptLog[m], acceptLog[n])
               /\ acceptLog[m].ev.messageId = acceptLog[n].ev.messageId )
             => ( /\ ~IsGenerated(acceptLog[m].ev.messageId)
                  /\ acceptLog[m].ev.messageId \in {msg.messageId : msg \in IdMsgs} ))
  /\ [][\A h \in Handlers :
          (hs'[h].pc = "send" /\ <<hs'[h].rid, hs'[h].j>> # <<hs[h].rid, hs[h].j>>) =>
            LET given == hs'[h].msgs[hs'[h].j].messageId IN
            IF given = ""
            THEN /\ nUuid' = nUuid + 1
                 /\ hs'[h].ev.messageId = NewUuid(nUuid')
                 /\ ~IsGenerated(hs'[h].ev.messageId)
            ELSE /\ hs'[h].ev.messageId = given
                 /\ nUuid' = nUuid]_vars

\* Two different events went to both sinks with the id "m1" the clients gave
\* both.
C15_Witness ==
  \E m, n \in 1..Len(acceptLog) :
    /\ ~SameEvent(acceptLog[m], acceptLog[n])
    /\ acceptLog[m].ev.messageId = "m1" /\ acceptLog[n].ev.messageId = "m1"
    /\ acceptLog[m].k = 2 /\ acceptLog[n].k = 2

\* ------------------------------------------------------------ NewDelivery
\* Delivery constructed from batch sizes and flush intervals (in seconds)
\* around the clamp's limits, then started and left to its timer.
ConfigSizes == {0 - 1, 0, 1, 2, 3, 499, 500, 501, 502}

ConfigIntervals == {0, 1, 2, 30, 31}

InitConfig == InitWith({<<"dlv">>}, {"errchan"}, ConfigSizes, ConfigIntervals)

NextConfig ==
  \/ Run
  \/ DlvConnect
  \/ DlvTimer(Healthy)
  \/ Tick

SpecConfig == InitConfig /\ [][NextConfig]_vars

\* C16: a Delivery constructed with batch size b has capacity b when
\* 1 <= b <= 500 and capacity 500 when b <= 0 or b > 500; a flush interval of
\* zero becomes 30 seconds, any other is kept; its timer runs that long.
C16_CapacityClamping ==
  /\ (1 <= config.BatchSize /\ config.BatchSize <= 500) => size = config.BatchSize
  /\ (config.BatchSize <= 0 \/ config.BatchSize > 500) => size = 500
  /\ config.FlushInterval = 0 => flushInterval = 30
  /\ config.FlushInterval # 0 => flushInterval = config.FlushInterval
  /\ size >= 1 /\ size <= 500
  /\ QueueCap = 2 * size
  /\ dWait <= flushInterval

\* A Delivery configured with batch size 501 and no flush interval runs with
\* capacity 500 and its timer has waited 30 seconds.
C16_Witness ==
  /\ config = [BatchSize |-> 501, FlushInterval |-> 0]
  /\ size = 500 /\ dWait = 30

\* ------------------------------------------------------ batch context
\* The events a sink has been handed, as its Send was called with them.
SeenBy(sink) ==
  {acceptLog[m].ev : m \in {n \in 1..Len(acceptLog) : acceptLog[n].sink = sink}}

\* C17: every event of a batch that carries a shared context reaches every
\* sink with exactly the batch's context in place of its own, and with the
\* write key and the project id resolved once for the batch; what the sinks
\* hold and send are those events unchanged.
C17_BatchSharedContext ==
  /\ [](/\ Range(fSent) \subseteq SeenBy("fwd")
        /\ DlvHolds \subseteq SeenBy("dlv"))
  /\ [][Len(acceptLog') = Len(acceptLog) + 1 =>
         LET a == acceptLog'[Len(acceptLog')] IN
         \A h \in Handlers :
           (hs[h].rid = a.rid /\ hs[h].kind = "batch" /\ hs[h].bctx # "none") =>
             /\ a.ev.context = hs[h].bctx
             /\ a.ev.writeKey = hs[h].key
             /\ a.ev.projectId = ProjectIdOf(hs[h].key)
             /\ a.ev.projectId = hs[h].proj]_vars

\* Both events of a batch with a shared context were handed to both sinks,
\* the Forwarder sent both and the Delivery holds both, all with that context.
C17_Witness ==
  /\ \E r \in 1..MaxMsgs :
       /\ \A i \in 1..2 : \A d \in Sinks :
            \E e \in SeenBy(d) : e.rid = r /\ e.idx = i /\ e.context = "cB"
       /\ \A i \in 1..2 :
            /\ \E e \in Range(fSent) : e.rid = r /\ e.idx = i /\ e.context = "cB"
            /\ \E e \in DlvHolds : e.rid = r /\ e.idx = i /\ e.context = "cB"

\* ------------------------------------------------ Forwarder send failures
\* C18: when f.send returns an error the failure counter goes up by one, the
\* message is dropped and never sent again, and Process is back at its select
\* without having returned; every message taken gets exactly one send, and
\* Process returns only on cancellation, from its select.
C18_DeliveryFailureNonFatal ==
  /\ [](/\ \A m, n \in 1..Len(fSent) : m # n => fSent[m] # fSent[n]
        /\ Len(fSent) = fSuccess + fFailure + (IF fpc = "sending" THEN 1 ELSE 0)
        /\ fpc = "returned" => cancelled)
  /\ [][/\ (fpc = "sending" /\ fpc' # "sending" /\ fErr' # "nil") =>
             /\ fFailure' = fFailure + 1 /\ fSuccess' = fSuccess
             /\ fpc' = "recv" /\ fCur' = NoEv
             /\ fSent' = fSent
             /\ sup' = sup
        /\ (fpc = "sending" /\ fpc' = "sending") => fSent' = fSent
        /\ (fpc # "returned" /\ fpc' = "returned") => (fpc = "recv" /\ cancelled)]_vars

\* A send failed, and the loop then took the next event and sent it.
C18_Witness ==
  /\ fFailure = 1 /\ fSuccess = 1 /\ Len(fSent) = 2
  /\ fErr = "nil" /\ fpc = "recv" /\ ~cancelled

\* ------------------------------------------- Delivery order and at-most-once
\* The records of the PutRecordBatch calls made while d.messages was channel g,
\* one after the other in the order of the calls.
RECURSIVE FlushedOf(_, _)
FlushedOf(log, g) ==
  IF log = <<>> THEN <<>>
  ELSE (IF Head(log).gen = g THEN Head(log).recs ELSE <<>>) \o FlushedOf(Tail(log), g)

IsPrefix(p, q) == Len(p) <= Len(q) /\ SubSeq(q, 1, Len(p)) = p

NoRepeat(q) == \A m, n \in 1..Len(q) : m # n => q[m] # q[n]

\* C19: within one invocation of Process the batches it flushed, one after
\* the other, are a prefix of the messages in the order they were sent on its
\* channel, and the records array and the channel hold the rest in that
\* order; no message is in two batches, whether or not a batch failed.
C19_OrderAtMostOnce ==
  /\ NoRepeat(Concat([n \in 1..Len(putLog) |-> putLog[n].recs]))
  /\ \A g \in 1..Len(dAdmit) :
       /\ IsPrefix(FlushedOf(putLog, g), dAdmit[g])
       /\ FlushedOf(putLog, g)
            \o (IF g = DMessages /\ dpc = "select" THEN records ELSE <<>>)
            \o dQueues[g] = dAdmit[g]

\* A batch failed, a later batch of the same invocation was flushed, and more
\* messages are waiting behind them.
C19_Witness ==
  /\ Len(putLog) >= 2
  /\ putLog[1].err /\ putLog[1].gen = putLog[2].gen
  /\ Len(putLog[1].recs) >= 2
  /\ Len(dAdmit[putLog[1].gen]) > Len(FlushedOf(putLog, putLog[1].gen))

\* ------------------------------------------------ Delivery drain on return
\* C20: when Process returns from its ctx.Done() case, every message that was
\* sent on d.messages before that return, whether already in the records
\* array or still in the channel, is in one of the batches Process flushed.
C20_DrainBeforeReturn ==
  [][(dpc = "select" /\ dpc' = "returned") =>
       Range(dAdmit[DMessages]) \subseteq Range(FlushedOf(putLog', DMessages))]_vars

\* ------------------------------------------------ Delivery state machine
\* Where an invocation of Process is: not yet called, in Connect, in its loop,
\* or returned; the final send(i) is part of the step that returns.
DlvPhase ==
  CASE dpc = "idle" -> 0
    [] dpc = "entry" -> 1
    [] dpc = "select" -> 2
    [] dpc = "returned" -> 4

\* C21: an invocation of Process only moves forward from idle through
\* Connect and the loop to its return, and only a new call by Run's goroutine
\* starts again at Connect.  Connect creates nothing when the stream is found,
\* attempts one creation when it is absent, and makes Process return an error
\* at once when the check fails otherwise or the creation fails.  Process
\* takes a message off the channel or calls PutRecordBatch only from its loop,
\* after the Connect of that invocation returned nil.
C21_StateMachine ==
  /\ [](/\ dConn.describe = "found" => (dConn.creates = 0 /\ dConn.err = "nil")
        /\ dConn.describe = "notfound" =>
             /\ dConn.creates = 1
             /\ dConn.err = (IF dConn.create = "ok" THEN "nil" ELSE "connecterr")
        /\ dConn.describe = "error" => (dConn.creates = 0 /\ dConn.err = "connecterr")
        /\ dpc = "select" => dConn.err = "nil"
        /\ dpc = "idle" => (dConn.describe = "none" /\ putLog = <<>> /\ dQueues = <<>>))
  /\ [][/\ dpc' # dpc =>
             \/ DlvPhase' > DlvPhase
             \/ /\ dpc = "returned" /\ dpc' = "entry"
                /\ sup'["dlv"].calls = sup["dlv"].calls + 1
        /\ (dpc = "entry" /\ dpc' # "entry") =>
             /\ dConn'.describe # "none"
             /\ dpc' = (IF dConn'.err = "nil" THEN "select" ELSE "returned")
             /\ dConn'.err # "nil" =>
                  /\ sup'["dlv"].rets = Append(sup["dlv"].rets, "connecterr")
                  /\ putLog' = putLog /\ dQueues' = dQueues
        /\ (putLog' # putLog
              \/ \E g \in 1..Len(dQueues) : Len(dQueues'[g]) < Len(dQueues[g])) =>
             (dpc = "select" /\ dConn.err = "nil")]_vars

\* A first invocation of Process returned Connect's error; the second found
\* the stream absent, created it, ran its loop and flushed a batch.
C21_Witness ==
  /\ sup["dlv"].calls = 2 /\ sup["dlv"].rets = <<"connecterr">>
  /\ dpc = "select"
  /\ dConn = [describe |-> "notfound", creates |-> 1, create |-> "ok", err |-> "nil"]
  /\ putLog # <<>>

\* ------------------------------------------------------------- shutdown
\* Run over each destination alone in both variants, and over both together
\* in the errchan variant, with batch size 2 so that the final flush has
\* records to send and may fail.  Every goroutine that can take a step gets to
\* take one, and the outbound calls return; only the final flush may fail.
InitShutdown ==
  \/ InitWith({<<"fwd">>, <<"dlv">>}, {"backoff", "errchan"}, {2}, {1})
  \/ InitWith({<<"fwd", "dlv">>}, {"errchan"}, {2}, {1})

NextShutdown ==
  \/ \E in \in GoodEvents : HandleEvent("h1", in, MaxMsgs)
  \/ DlvSendEnter("h1")
  \/ DlvSendEnqueue("h1")
  \/ FwdSend("h1")
  \/ FwdStart
  \/ FwdHttpReturn(Healthy)
  \/ FwdHttpCancel
  \/ FwdCtxDone
  \/ DlvConnect
  \/ DlvRecv(Healthy)
  \/ DlvCtxDone(Outcomes)
  \/ DlvTimer(Healthy)
  \/ Tick
  \/ Run
  \/ \E d \in Sinks : SupWake(d)
  \/ SupClose
  \/ Cancel

SpecShutdown ==
  /\ InitShutdown /\ [][NextShutdown]_vars
  /\ WF_vars(FwdStart)
  /\ WF_vars(FwdHttpReturn(Healthy))
  /\ WF_vars(FwdCtxDone)
  /\ WF_vars(DlvConnect)
  /\ WF_vars(DlvCtxDone(Outcomes))
  /\ \A d \in Sinks : WF_vars(SupWake(d))
  /\ WF_vars(SupClose)

\* Every Process has returned for good and every goroutine of Run has ended
\* (in the errchan variant done is closed as well), or Logger.Fatal has ended
\* the whole process.
ShutDown ==
  \/ exited
  \/ /\ Configured("dlv") => dpc = "returned"
     /\ Configured("fwd") => fpc = "returned"
     /\ \A d \in Sinks : Configured(d) => sup[d].pc = "ended"
     /\ variant = "errchan" => doneClosed

\* C22: once the context of a started Run is cancelled, both Process loops
\* return and both goroutines of Run end, whatever is still being sent and
\* whether or not the final flush succeeds.
C22_ShutdownLiveness == (cancelled /\ started) ~> ShutDown

\* After the cancellation the final flush of Delivery failed, Run's goroutine
\* called Process again, and everything has ended.
C22_Witness ==
  /\ cancelled /\ ~exited
  /\ sup["dlv"].rets = <<"senderr", "nil">>
  /\ dpc = "returned" /\ sup["dlv"].pc = "ended"

\* --------------------------------------------------------- no empty flush
\* C23: no PutRecordBatch call carries zero records; when the timer of the
\* select fires with no record in the array nothing is sent, and when
\* ctx.Done() is taken with no record in the array Process returns nil
\* without a PutRecordBatch call.
C23_NoEmptyFlush ==
  /\ [](\A n \in 1..Len(putLog) : putLog[n].recs # <<>>)
  /\ [][/\ (/\ dpc = "select" /\ dpc' = "select"
            /\ dWait = flushInterval /\ dWait' = 0
            /\ dQueues' = dQueues /\ records = <<>>) =>
             (putLog' = putLog /\ records' = <<>>)
        /\ (dpc = "select" /\ dpc' = "returned" /\ records = <<>>) =>
             /\ putLog' = putLog
             /\ dRet' = "nil"
             /\ sup'["dlv"].rets = Append(sup["dlv"].rets, "nil")]_vars

\* Process connected, then took ctx.Done() with nothing in the array and
\* returned nil; no PutRecordBatch call was ever made.
C23_Witness ==
  /\ dpc = "returned" /\ dConn.err = "nil" /\ dRet = "nil"
  /\ cancelled /\ putLog = <<>>
  /\ sup["dlv"].rets = <<"nil">>

\* ------------------------------------------- Delivery conservation, bounds
\* The records of all PutRecordBatch calls made so far.
FlushedCount == Len(Concat([n \in 1..Len(putLog) |-> putLog[n].recs]))

\* C24: while the loop of Process runs with batch size N, the array holds
\* between 0 and N records and is written only at an index below N, the
\* channel holds at most 2N messages, and the Sends that returned nil are as
\* many as the records flushed, the records in the array and the messages in
\* the channel together.
C24_ConservationAndBounds ==
  /\ [](/\ Len(records) >= 0 /\ Len(records) <= size
        /\ \A n \in 1..Len(putLog) : Len(putLog[n].recs) <= size
        /\ \A g \in 1..Len(dQueues) : Len(dQueues[g]) <= 2 * size
        /\ dpc = "select" =>
             Accepted("dlv") = FlushedCount + Len(records) + Len(dQueues[DMessages]))
  /\ [][(dpc = "select" /\ Len(dQueues'[DMessages]) < Len(dQueues[DMessages])) =>
          Len(records) < size]_vars

\* The loop is running with a batch flushed, a record in the array and
\* messages in the channel: five Sends have returned nil.
C24_Witness ==
  /\ dpc = "select" /\ Accepted("dlv") = 5
  /\ putLog # <<>> /\ records # <<>> /\ Len(dQueues[DMessages]) >= 2

\* ------------------------------------------------- Delivery.Send not ready
\* The calls of Delivery.Send so far, in the order they were made.
DlvCalls == SelectSeq(acceptLog, LAMBDA a : a.sink = "dlv")

\* C25: d.messages is nil until a Process invocation has connected and made
\* the channel, and is never nil again.  A Send that finds it nil returns the
\* not-ready error at once and puts nothing on any channel; a Send that finds
\* a channel never returns that error, also after Process has returned.
C25_NotReady ==
  /\ [](/\ DMessages = 0 =>
             /\ \A n \in 1..Len(DlvCalls) : DlvCalls[n].res = "notready"
             /\ \A h \in Handlers : hs[h].pc # "blocked"
             /\ putLog = <<>>
        /\ DMessages > 0 => (started /\ sup["dlv"].calls >= 1)
        /\ \A m, n \in 1..Len(DlvCalls) :
             (m < n /\ DlvCalls[n].res = "notready") => DlvCalls[m].res = "notready")
  /\ [][/\ Len(dQueues') >= Len(dQueues)
        /\ Len(dQueues') > Len(dQueues) =>
             (dpc = "entry" /\ dpc' = "select" /\ dConn'.err = "nil")
        /\ Len(DlvCalls') > Len(DlvCalls) =>
             LET a == DlvCalls'[Len(DlvCalls')] IN
             /\ a.res = "notready" <=> DMessages = 0
             /\ a.res = "notready" =>
                  /\ dQueues' = dQueues
                  /\ \A h \in Handlers : hs'[h].pc # "blocked"]_vars

\* A Send before the channel was made got the not-ready error; Process later
\* connected, ran and returned, and a Send made after that is waiting on the
\* channel.
C25_Witness ==
  /\ Len(DlvCalls) = 2
  /\ DlvCalls[1].res = "notready" /\ DlvCalls[2].res = "pending"
  /\ dpc = "returned" /\ dConn.err = "nil"
  /\ hs["h1"].pc = "blocked"

====
